---------------------------- MODULE Spec2Model ----------------------------
(***************************************************************************)
(* WormBait data layer (WormCSV.py): the CuffLink store, the WormData      *)
(* record enricher with its WormBase lookups, and the OutputCSV writer.    *)
(* The repository ships two variants of the module, python2/WormCSV.py and *)
(* python3/WormCSV.py; the variable impl says which one is running.        *)
(*                                                                         *)
(* Python values are tagged records: None, S(str), N(int), L(list),        *)
(* D(dict). A Python str is a TLA+ string, a dict a function from its keys.*)
(* An operation that may raise returns [exc, val]: exc = "" on a normal    *)
(* return and the exception's name otherwise.                              *)
(***************************************************************************)
EXTENDS Integers, Sequences, FiniteSets, TLC

(***************************************************************************)
(* Bounds of the model.                                                    *)
(***************************************************************************)
\* The longest list (gene_models table, human_orthologs) the API returns.
MaxItems == 2

-----------------------------------------------------------------------------
(***************************************************************************)
(* Python values and the Python operations the code applies to them.       *)
(***************************************************************************)
None == [t |-> "none"]
S(s) == [t |-> "str", v |-> s]
N(n) == [t |-> "num", v |-> n]
L(q) == [t |-> "list", v |-> q]
D(f) == [t |-> "dict", v |-> f]

EmptyDict == <<>>

R(val) == [exc |-> "", val |-> val]
Raise(e) == [exc |-> e, val |-> None]

\* bool(v)
Truthy(v) ==
    CASE v.t = "none" -> FALSE
      [] v.t = "str" -> v.v # ""
      [] v.t = "num" -> v.v # 0
      [] v.t = "list" -> Len(v.v) > 0
      [] v.t = "dict" -> DOMAIN v.v # {}

\* k in s, for two str
IsSubstr(k, s) ==
    \E i \in 1..(Len(s) - Len(k) + 1) : SubSeq(s, i, i + Len(k) - 1) = k

\* s.startswith(p)
StartsWith(s, p) == Len(s) >= Len(p) /\ SubSeq(s, 1, Len(p)) = p

\* k in v, for a str k: "T", "F", or "E" when it raises TypeError.
PyIn(k, v) ==
    CASE v.t = "dict" -> IF k \in DOMAIN v.v THEN "T" ELSE "F"
      [] v.t = "list" -> IF \E i \in 1..Len(v.v) : v.v[i] = S(k) THEN "T" ELSE "F"
      [] v.t = "str" -> IF IsSubstr(k, v.v) THEN "T" ELSE "F"
      [] OTHER -> "E"

\* v[k], for a str k
PyGet(v, k) ==
    CASE v.t = "dict" -> IF k \in DOMAIN v.v THEN R(v.v[k]) ELSE Raise("KeyError")
      [] OTHER -> Raise("TypeError")

\* The characters of a str, each a str.
RECURSIVE Chars(_)
Chars(s) == IF s = "" THEN <<>> ELSE <<S(Head(s))>> \o Chars(Tail(s))

\* The keys of a dict in iteration order.
RECURSIVE KeySeq(_)
KeySeq(ks) ==
    IF ks = {} THEN <<>>
    ELSE LET k == CHOOSE x \in ks : TRUE IN <<S(k)>> \o KeySeq(ks \ {k})

\* for item in v: the items, or TypeError when v is not iterable.
PyIter(v) ==
    CASE v.t = "list" -> R(v.v)
      [] v.t = "str" -> R(Chars(v.v))
      [] v.t = "dict" -> R(KeySeq(DOMAIN v.v))
      [] OTHER -> Raise("TypeError")

\* ', '.join(q) for a sequence of str values
RECURSIVE JoinStr(_)
JoinStr(q) ==
    IF Len(q) = 0 THEN ""
    ELSE IF Len(q) = 1 THEN q[1].v
    ELSE q[1].v \o ", " \o JoinStr(Tail(q))

\* ', '.join(v): TypeError when an item is not a str.
PyJoin(q) ==
    IF \A i \in 1..Len(q) : q[i].t = "str" THEN R(S(JoinStr(q)))
    ELSE Raise("TypeError")

\* d[k] = v
Put(d, k, v) == [x \in (DOMAIN d) \cup {k} |-> IF x = k THEN v ELSE d[x]]

\* All sequences over set s of length at most n.
SeqsUpTo(s, n) == UNION {[1..k -> s] : k \in 0..n}

-----------------------------------------------------------------------------
(***************************************************************************)
(* WormData.fetch: one HTTP GET to the WormBase API.                       *)
(* resp is the outcome of the request: a transport failure, a body that is *)
(* not JSON, or a decoded JSON body.                                       *)
(***************************************************************************)
GENE_BASE == "http://api.wormbase.org/rest/field/gene"
PROTEIN_BASE == "http://api.wormbase.org/rest/field/protein"

Transport == [kind |-> "transport", body |-> None]
Undecodable == [kind |-> "undecodable", body |-> None]
Json(j) == [kind |-> "json", body |-> j]

fetch(id, datum, resp) ==
    IF id.t # "str" THEN Raise("TypeError")
    ELSE IF resp.kind = "transport" THEN Raise("ConnectionError")
    ELSE IF resp.kind = "undecodable" THEN R(None)
    ELSE LET j == resp.body
             inJ == PyIn(datum, j)
         IN  IF inJ = "E" THEN Raise("TypeError")
             ELSE IF inJ = "F" THEN R(None)
             ELSE LET jd == PyGet(j, datum)
                  IN  IF jd.exc # "" THEN jd
                      ELSE LET inD == PyIn("data", jd.val)
                           IN  IF inD = "E" THEN Raise("TypeError")
                               ELSE IF inD = "F" THEN R(None)
                               ELSE PyGet(jd.val, "data")


-----------------------------------------------------------------------------
(***************************************************************************)
(* CuffLinkDatabase: the rows csv.reader yields for the input file, the    *)
(* first being the headers. A row is a sequence of cells (str).            *)
(***************************************************************************)
Min(a, b) == IF a < b THEN a ELSE b

\* dict(zip(headers, row)): zip stops at the shorter of the two, a repeated
\* header keeps its last cell.
ZipDict(headers, row) ==
    LET m == Min(Len(headers), Len(row))
    IN  [k \in {headers[i] : i \in 1..m} |->
            LET last == CHOOSE i \in 1..m :
                            /\ headers[i] = k
                            /\ \A j \in 1..m : headers[j] = k => j <= i
            IN  S(row[last])]

\* for row in reader: self.data[row[0]] = dict(zip(headers, row))
RECURSIVE LoadRows(_, _, _)
LoadRows(headers, rows, acc) ==
    IF Len(rows) = 0 THEN [exc |-> "", data |-> acc]
    ELSE LET row == Head(rows)
         IN  IF Len(row) = 0 THEN [exc |-> "IndexError", data |-> acc]
             ELSE LoadRows(headers, Tail(rows),
                           Put(acc, row[1], D(ZipDict(headers, row))))

\* CuffLinkDatabase.__init__: next(reader) raises StopIteration on a source
\* with no row at all.
CuffLinkDatabaseInit(rows) ==
    IF Len(rows) = 0 THEN [exc |-> "StopIteration", data |-> EmptyDict]
    ELSE LoadRows(Head(rows), Tail(rows), EmptyDict)

\* CuffLinkDatabase.get
DatabaseGet(db, dbId) ==
    IF dbId.t = "str" /\ dbId.v \in DOMAIN db THEN db[dbId.v] ELSE None

-----------------------------------------------------------------------------
(***************************************************************************)
(* WormData.populate, cut at its calls of fetch. Each operator is the code *)
(* that runs on the value r one fetch returned, up to the next fetch; it   *)
(* returns [exc, data]: the exception raised, if any, and self.data.       *)
(***************************************************************************)
O(d) == [exc |-> "", data |-> d]
Fail(e, d) == [exc |-> e, data |-> d]

\* joinIfExtant without its test for the empty list.
joinIfExtantAlways(d, datum) ==
    LET j == PyJoin(d[datum].v)
    IN  IF j.exc # "" THEN Fail(j.exc, d) ELSE O(Put(d, datum, j.val))

\* WormData.joinIfExtant (python3: the same lines inline)
joinIfExtant(d, datum) ==
    IF Len(d[datum].v) = 0 THEN O(Put(d, datum, None))
    ELSE LET j == PyJoin(d[datum].v)
         IN  IF j.exc # "" THEN Fail(j.exc, d) ELSE O(Put(d, datum, j.val))

\* Construct with the local row guarded: a record whose dbId is not in the
\* store goes on without 'up/down'.
ConstructLenient(variant, dbId, geneID, db) ==
    LET d0 == Put(EmptyDict, "gene_id", geneID)
        row == DatabaseGet(db, dbId)
        fold == PyGet(row, "log2(fold_change)")
        known == Truthy(row) /\ fold.exc = ""
    IN  IF variant = "python2" /\ Truthy(geneID) /\ geneID.t # "str"
        THEN [exc |-> "AttributeError", data |-> d0, gets |-> 0,
              fetching |-> FALSE]
        ELSE IF variant = "python2"
           /\ ~(Truthy(geneID) /\ StartsWith(geneID.v, "WBGene"))
        THEN [exc |-> "", data |-> d0, gets |-> 0, fetching |-> FALSE]
        ELSE IF variant = "python2" /\ ~Truthy(dbId)
        THEN [exc |-> "", data |-> d0, gets |-> 0, fetching |-> TRUE]
        ELSE [exc |-> "", gets |-> 1, fetching |-> TRUE,
              data |-> IF known THEN Put(d0, "up/down", fold.val) ELSE d0]

\* WormData.__init__ and populate up to the first fetch. gets counts the
\* calls of database.get; fetching says whether a first fetch follows.
\* python2 looks nothing up for a geneID without the prefix WBGene and
\* reads the store only when a dbId is given; python3 has neither test.
Construct(variant, dbId, geneID, db) ==
    LET d0 == Put(EmptyDict, "gene_id", geneID)
        row == DatabaseGet(db, dbId)
        fold == PyGet(row, "log2(fold_change)")
    IN  IF variant = "python2"
        THEN IF Truthy(geneID) /\ geneID.t # "str"
             THEN [exc |-> "AttributeError", data |-> d0, gets |-> 0,
                   fetching |-> FALSE]
             ELSE IF Truthy(geneID) /\ StartsWith(geneID.v, "WBGene")
             THEN IF Truthy(dbId)
                  THEN IF fold.exc # ""
                       THEN [exc |-> fold.exc, data |-> d0, gets |-> 1, fetching |-> FALSE]
                       ELSE [exc |-> "", data |-> Put(d0, "up/down", fold.val),
                             gets |-> 1, fetching |-> TRUE]
                  ELSE [exc |-> "", data |-> d0, gets |-> 0, fetching |-> TRUE]
             ELSE [exc |-> "", data |-> d0, gets |-> 0, fetching |-> FALSE]
        ELSE IF fold.exc # ""
             THEN [exc |-> fold.exc, data |-> d0, gets |-> 1, fetching |-> FALSE]
             ELSE [exc |-> "", data |-> Put(d0, "up/down", fold.val),
                   gets |-> 1, fetching |-> TRUE]

\* self.data['sequence_name'] = sequence
AfterSequenceName(d, r) == O(Put(d, "sequence_name", r))

\* self.data['description'] = description['text']
AfterConciseDescription(d, r) ==
    LET g == PyGet(r, "text")
    IN  IF g.exc # "" THEN Fail(g.exc, d) ELSE O(Put(d, "description", g.val))

\* The loop over geneModels['table']: the protein ids of the items that
\* have one, in order; [exc, val].
RECURSIVE CollectProteinIds(_)
CollectProteinIds(items) ==
    IF Len(items) = 0 THEN R(<<>>)
    ELSE LET item == Head(items)
             rest == CollectProteinIds(Tail(items))
             hasP == PyIn("protein", item)
             p == PyGet(item, "protein")
             hasId == PyIn("id", p.val)
             id == PyGet(p.val, "id")
         IN  IF ~Truthy(item) THEN rest
             ELSE IF hasP = "E" THEN Raise("TypeError")
             ELSE IF hasP = "F" THEN rest
             ELSE IF p.exc # "" THEN p
             ELSE IF hasId = "E" THEN Raise("TypeError")
             ELSE IF hasId = "F" THEN rest
             ELSE IF id.exc # "" THEN id
             ELSE IF rest.exc # "" THEN rest
             ELSE R(<<id.val>> \o rest.val)

\* The gene_models block. python2 guards the table and leaves protein_id a
\* list until the end of populate; python3 reads the table unguarded and
\* joins protein_id at once.
AfterGeneModels(variant, d, r) ==
    LET d1 == Put(d, "protein_id", L(<<>>))
        hasT == PyIn("table", r)
        t == PyGet(r, "table")
        it == PyIter(t.val)
        c == CollectProteinIds(it.val)
    IN  IF variant = "python2"
        THEN IF ~Truthy(r) THEN O(d1)
             ELSE IF hasT = "E" THEN Fail("TypeError", d1)
             ELSE IF hasT = "F" THEN O(d1)
             ELSE IF t.exc # "" THEN Fail(t.exc, d1)
             ELSE IF it.exc # "" THEN Fail(it.exc, d1)
             ELSE IF c.exc # "" THEN Fail(c.exc, d1)
             ELSE O(Put(d1, "protein_id", L(c.val)))
        ELSE IF t.exc # "" THEN Fail(t.exc, d1)
             ELSE IF it.exc # "" THEN Fail(it.exc, d1)
             ELSE IF c.exc # "" THEN Fail(c.exc, d1)
             ELSE joinIfExtant(Put(d1, "protein_id", L(c.val)), "protein_id")

\* The gene_class block: python2 extracts tag.label when present, python3
\* stores the value as returned.
AfterGeneClass(variant, d, r) ==
    LET hasT == PyIn("tag", r)
        t == PyGet(r, "tag")
        hasL == PyIn("label", t.val)
        l == PyGet(t.val, "label")
    IN  IF variant = "python2"
        THEN IF ~Truthy(r) THEN O(d)
             ELSE IF hasT = "E" THEN Fail("TypeError", d)
             ELSE IF hasT = "F" THEN O(d)
             ELSE IF t.exc # "" THEN Fail(t.exc, d)
             ELSE IF hasL = "E" THEN Fail("TypeError", d)
             ELSE IF hasL = "F" THEN O(d)
             ELSE IF l.exc # "" THEN Fail(l.exc, d)
             ELSE O(Put(d, "gene_class", l.val))
        ELSE O(Put(d, "gene_class", r))

\* for item in orthologs: append(item['ortholog']['label']); [exc, val].
RECURSIVE CollectLabels(_)
CollectLabels(items) ==
    IF Len(items) = 0 THEN R(<<>>)
    ELSE LET o == PyGet(Head(items), "ortholog")
             l == PyGet(o.val, "label")
             rest == CollectLabels(Tail(items))
         IN  IF o.exc # "" THEN o
             ELSE IF l.exc # "" THEN l
             ELSE IF rest.exc # "" THEN rest
             ELSE R(<<l.val>> \o rest.val)

\* One of the three ortholog blocks, with its join.
AfterOrthologs(d, datum, r) ==
    LET d1 == Put(d, datum, L(<<>>))
        it == PyIter(r)
        c == CollectLabels(it.val)
    IN  IF ~Truthy(r) THEN joinIfExtant(d1, datum)
        ELSE IF it.exc # "" THEN Fail(it.exc, d1)
        ELSE IF c.exc # "" THEN Fail(c.exc, d1)
        ELSE joinIfExtant(Put(d1, datum, L(c.val)), datum)

\* isSingular, as each variant computes it.
isSingular(variant, pid) ==
    IF variant = "python2" THEN pid.t = "str"
    ELSE pid.t \in {"list", "dict"}

\* The identifiers the best_human_match lookups will be made with, in
\* order; [exc, val].
ProteinLookups(variant, pid) ==
    IF variant = "python2"
    THEN IF Truthy(pid) /\ ~isSingular(variant, pid) THEN PyIter(pid)
         ELSE IF Truthy(pid) THEN R(<<pid>>)
         ELSE R(<<>>)
    ELSE IF ~isSingular(variant, pid) THEN PyIter(pid)
         ELSE R(<<pid>>)

\* if bestHumanMatch and 'description' in bestHumanMatch: append it
AfterBestHumanMatch(d, r) ==
    LET has == PyIn("description", r)
        g == PyGet(r, "description")
    IN  IF ~Truthy(r) THEN O(d)
        ELSE IF has = "E" THEN Fail("TypeError", d)
        ELSE IF has = "F" THEN O(d)
        ELSE IF g.exc # "" THEN Fail(g.exc, d)
        ELSE O(Put(d, "best_human_ortholog",
                   L(Append(d["best_human_ortholog"].v, g.val))))

\* The end of populate: the joins after the last best_human_match lookup.
Finish(variant, d) ==
    LET j == joinIfExtant(d, "protein_id")
    IN  IF variant = "python2"
        THEN IF j.exc # "" THEN j ELSE joinIfExtant(j.data, "best_human_ortholog")
        ELSE joinIfExtant(d, "best_human_ortholog")

-----------------------------------------------------------------------------
(***************************************************************************)
(* OutputCSV.write. A record is the dict describe() returns; a row is the  *)
(* sequence of its cells. write returns [exc, headers, rows]: the          *)
(* exception raised, if any, self.headers, and the rows in the file.       *)
(***************************************************************************)
\* The loop that computes exclusivelyWBIds; [exc, val]. startswith raises
\* AttributeError on a db_id that is not a str.
RECURSIVE ExclusivelyWBIds(_, _)
ExclusivelyWBIds(recs, acc) ==
    IF Len(recs) = 0 THEN R(acc)
    ELSE LET d == Head(recs)
         IN  IF acc /\ DOMAIN d # {} /\ "db_id" \in DOMAIN d
             THEN IF d["db_id"].t # "str" THEN Raise("AttributeError")
                  ELSE ExclusivelyWBIds(Tail(recs),
                                        ~StartsWith(d["db_id"].v, "XLOC"))
             ELSE ExclusivelyWBIds(Tail(recs), acc)

\* list.remove(x): the list without the first x; ValueError when x is not
\* in the list.
ListRemove(q, x) ==
    IF \E i \in 1..Len(q) : q[i] = x
    THEN LET i == CHOOSE i \in 1..Len(q) :
                      q[i] = x /\ \A j \in 1..(i - 1) : q[j] # x
         IN  R(SubSeq(q, 1, i - 1) \o SubSeq(q, i + 1, Len(q)))
    ELSE Raise("ValueError")

\* The cell the csv writer writes for a value: None is the empty cell, a
\* str itself, anything else its str(), reduced here to its brackets.
Cell(v) ==
    CASE v.t = "none" -> ""
      [] v.t = "str" -> v.v
      [] v.t = "num" -> "0"
      [] v.t = "list" -> "[...]"
      [] v.t = "dict" -> "{...}"

\* DictWriter.writerow: ValueError on a key that is no fieldname
\* (extrasaction='raise'), the empty cell for a fieldname that is no key.
WriteRow(h, d) ==
    IF \E k \in DOMAIN d : \A i \in 1..Len(h) : h[i] # k
    THEN Raise("ValueError")
    ELSE R([i \in 1..Len(h) |-> IF h[i] \in DOMAIN d THEN Cell(d[h[i]]) ELSE ""])

\* for wormData in listOfWormDatas: writer.writerow(wormData.describe())
RECURSIVE WriteRows(_, _, _)
WriteRows(h, recs, rows) ==
    IF Len(recs) = 0 THEN [exc |-> "", headers |-> h, rows |-> rows]
    ELSE LET r == WriteRow(h, Head(recs))
         IN  IF r.exc # "" THEN [exc |-> r.exc, headers |-> h, rows |-> rows]
             ELSE WriteRows(h, Tail(recs), Append(rows, r.val))

\* OutputCSV.write. python2 trims the headers first. python3 opens the
\* file in binary mode, so that writeheader raises TypeError.
write(variant, h, recs) ==
    LET x == ExclusivelyWBIds(recs, TRUE)
        h1 == ListRemove(h, "db_id")
        h2 == ListRemove(h1.val, "up/down")
    IN  IF variant = "python3"
        THEN [exc |-> "TypeError", headers |-> h, rows |-> <<>>]
        ELSE IF x.exc # "" THEN [exc |-> x.exc, headers |-> h, rows |-> <<>>]
        ELSE IF ~x.val THEN WriteRows(h, recs, <<h>>)
        ELSE IF h1.exc # "" THEN [exc |-> h1.exc, headers |-> h, rows |-> <<>>]
        ELSE IF h2.exc # ""
             THEN [exc |-> h2.exc, headers |-> h1.val, rows |-> <<>>]
        ELSE WriteRows(h2.val, recs, <<h2.val>>)

-----------------------------------------------------------------------------
(***************************************************************************)
(* The inputs of a run and what the WormBase API may answer.               *)
(***************************************************************************)
Variants == {"python2", "python3"}

Headers == <<"id", "log2(fold_change)">>

\* The input files: no row at all, one full row, a row shorter than the
\* headers, a blank row, two rows.
OneRowFile == <<Headers, <<"XLOC_1", "2.5">>>>

Files ==
    { <<>>,
      OneRowFile,
      <<Headers, <<"XLOC_1">>>>,
      <<Headers, <<>>>>,
      <<Headers, <<"XLOC_1", "2.5">>, <<"XLOC_2", "-1.0">>>> }

\* The header lists a caller may give OutputCSV: every field, or the
\* fields WormBase supplies.
AllHeaders ==
    <<"db_id", "gene_id", "sequence_name", "description", "protein_id",
      "gene_class", "human_orthologs", "nematode_orthologs", "other_orthologs",
      "best_human_ortholog", "up/down">>
GeneHeaders ==
    <<"gene_id", "sequence_name", "description", "protein_id",
      "gene_class", "human_orthologs", "nematode_orthologs", "other_orthologs",
      "best_human_ortholog">>
HeaderLists == {AllHeaders, GeneHeaders}

DbIds == {None, S("XLOC_1"), S("XLOC_9")}
GeneIds == {None, S(""), S("XLOC_1"), S("WBGene1")}
Inputs == [dbId : DbIds, geneID : GeneIds]

Orth(l) == D([ortholog |-> D([label |-> S(l)])])
Model(p) == D([protein |-> D([id |-> S(p)])])
ProteinIds == {"P1", "P2"}

\* The best human match the API knows for a protein; it knows none for an
\* identifier that is no protein's.
DescOf(p) == IF p = "P1" THEN "human A" ELSE "human B"

\* The 'data' values the API may return for a field.
DataValues(datum, id) ==
    CASE datum = "sequence_name" ->
            {S("abc-1"), D([label |-> S("abc-1")])}
      [] datum = "concise_description" ->
            {D([text |-> S("a protein")]), D(EmptyDict)}
      [] datum = "gene_models" ->
            {D([table |-> L(q)]) :
                q \in SeqsUpTo({Model(p) : p \in ProteinIds} \cup {D(EmptyDict)},
                               MaxItems)}
            \cup {D(EmptyDict), N(7)}
      [] datum = "gene_class" ->
            {D([tag |-> D([label |-> S("abc")])])}
      [] datum = "human_orthologs" ->
            {L([i \in 1..k |-> Orth(IF i % 2 = 1 THEN "H1" ELSE "H2")]) :
                k \in 0..MaxItems}
            \cup {L(<<D(EmptyDict)>>)}
      [] datum = "nematode_orthologs" ->
            {L(<<>>), L(<<Orth("N1"), Orth("N2")>>)}
      [] datum = "other_orthologs" ->
            {L(<<>>), L(<<Orth("O1"), Orth("O2")>>)}
      [] datum = "best_human_match" ->
            IF id.t = "str" /\ id.v \in ProteinIds
            THEN {D([description |-> S(DescOf(id.v))]), D(EmptyDict)}
            ELSE {}

\* The well-formed body {datum: {"data": v}}.
Body(datum, v) == Json(D(datum :> D("data" :> v)))

\* Bodies that decode but do not have the expected shape.
OddBodies(datum) ==
    { Json(None), Json(S(datum)), Json(L(<<S(datum)>>)), Json(L(<<>>)),
      Json(D(EmptyDict)), Json(D(datum :> None)), Json(D(datum :> S("data"))),
      Json(D(datum :> D(EmptyDict))), Body(datum, None) }

\* The answers of a stub API.
CannedValue(datum, id) ==
    CASE datum = "sequence_name" -> S("abc-1")
      [] datum = "concise_description" -> D([text |-> S("a protein")])
      [] datum = "gene_models" -> D([table |-> L(<<Model("P1")>>)])
      [] datum = "gene_class" -> D([tag |-> D([label |-> S("abc")])])
      [] datum = "best_human_match" -> D([description |-> S("human A")])
      [] OTHER -> L(<<>>)

\* The outcomes of one request. The stub API answers every request as
\* expected, except that it may have no gene class.
Responses(env, datum, id) ==
    IF env = "any"
    THEN {Transport, Undecodable} \cup OddBodies(datum)
         \cup {Body(datum, v) : v \in DataValues(datum, id)}
    ELSE {Body(datum, CannedValue(datum, id))}
         \cup (IF datum = "gene_class" THEN {Undecodable} ELSE {})

-----------------------------------------------------------------------------
(***************************************************************************)
(* The state of a run.                                                     *)
(***************************************************************************)
VARIABLES
    impl,       \* the variant running: "python2" or "python3"
    api,        \* what the API may answer: "any" or "canned"
    file,       \* the rows of the input file
    dbState,    \* "unloaded", "loaded", or the exception the load raised
    db,         \* CuffLinkDatabase.data
    inputs,     \* the (dbId, geneID) pairs to enrich, in order
    idx,        \* how many WormData constructions have started
    pc,         \* "idle", the datum of the next fetch, "done" or "raised"
    data,       \* WormData.data of the record under construction
    pending,    \* the identifiers still to look up for best_human_match
    calls,      \* the requests made so far: <<record, base, id, datum>>
    gets,       \* the calls of CuffLinkDatabase.get so far: <<record, dbId>>
    locals,     \* the local variables of populate that hold what fetch returned
    found,      \* the descriptions the best_human_match lookups returned
    ret,        \* the last fetch: the exception it raised ("" if none) and
                \* whether it returned None
    err,        \* the exception populate raised, "" if none
    records,    \* self.data of the WormData objects constructed, in order
    headers,    \* OutputCSV.headers
    out,        \* the rows written to the output file
    given,      \* the headers OutputCSV was constructed with
    wstate      \* "none", "written", or the exception write raised

vars == <<impl, api, file, dbState, db, inputs, idx, pc, data, pending,
          calls, gets, locals, found, ret, err, records, headers, out,
          given, wstate>>

cur == inputs[idx]

InitRun ==
    /\ impl \in Variants
    /\ dbState = "unloaded"
    /\ db = EmptyDict
    /\ idx = 0
    /\ pc = "idle"
    /\ data = EmptyDict
    /\ pending = <<>>
    /\ calls = <<>>
    /\ gets = <<>>
    /\ locals = EmptyDict
    /\ found = <<>>
    /\ ret = [exc |-> "", absent |-> TRUE]
    /\ err = ""
    /\ records = <<>>
    /\ headers = <<>>
    /\ given = <<>>
    /\ out = <<>>
    /\ wstate = "none"

\* One prefixed gene with its local record, any answer of the API.
Init ==
    /\ InitRun
    /\ file = OneRowFile
    /\ api = "any"
    /\ inputs = << [dbId |-> S("XLOC_1"), geneID |-> S("WBGene1")] >>

\* A whole run on a stub API: any input file, one or two records.
InitRuns ==
    /\ InitRun
    /\ file \in Files
    /\ api = "canned"
    /\ inputs \in {<<i>> : i \in Inputs} \cup {<<i, j>> : i, j \in Inputs}

\* CuffLinkDatabase(file)
Load ==
    /\ dbState = "unloaded"
    /\ LET r == CuffLinkDatabaseInit(file)
       IN  /\ dbState' = IF r.exc = "" THEN "loaded" ELSE r.exc
           /\ db' = IF r.exc = "" THEN r.data ELSE EmptyDict
    /\ UNCHANGED <<impl, api, file, inputs, idx, pc, data, pending, calls,
                   gets, locals, found, ret, err, records, headers, out,
                   given, wstate>>

\* populate ended with outcome o: it raised, or the record is complete.
End(o) ==
    /\ data' = o.data
    /\ err' = o.exc
    /\ pc' = IF o.exc # "" THEN "raised" ELSE "done"
    /\ records' = IF o.exc # "" THEN records ELSE Append(records, o.data)
    /\ pending' = <<>>

\* WormData(dbId, geneID, database), up to its first fetch
New ==
    /\ dbState = "loaded"
    /\ pc \in {"idle", "done"}
    /\ idx < Len(inputs)
    /\ idx' = idx + 1
    /\ LET in == inputs[idx + 1]
           c == Construct(impl, in.dbId, in.geneID, db)
       IN  /\ gets' = IF c.gets = 1 THEN Append(gets, <<idx + 1, in.dbId>>)
                       ELSE gets
           /\ locals' = EmptyDict
           /\ found' = <<>>
           /\ IF c.exc = "" /\ c.fetching
              THEN /\ data' = c.data
                   /\ err' = ""
                   /\ pc' = "sequence_name"
                   /\ UNCHANGED <<records, pending>>
              ELSE End([exc |-> c.exc, data |-> c.data])
    /\ wstate = "none"
    /\ UNCHANGED <<impl, api, file, dbState, db, inputs, calls, ret,
                   headers, out, given, wstate>>

\* The local variable of populate that takes what fetch returns for datum.
LocalOf(datum) ==
    CASE datum = "sequence_name" -> "sequence"
      [] datum = "concise_description" -> "description"
      [] datum = "gene_models" -> "geneModels"
      [] datum = "gene_class" -> "geneClass"
      [] datum = "human_orthologs" -> "humanOrthologs"
      [] datum = "nematode_orthologs" -> "nematodeOrthologs"
      [] datum = "other_orthologs" -> "otherOrthologs"
      [] datum = "best_human_match" -> "bestHumanMatch"

\* The request of one fetch and what fetch returned.
Request(base, id, datum, r) ==
    /\ calls' = IF id.t = "str" THEN Append(calls, <<idx, base, id.v, datum>>)
                ELSE calls
    /\ ret' = [exc |-> r.exc, absent |-> r.val = None]
    /\ locals' = IF r.exc = "" THEN Put(locals, LocalOf(datum), r.val)
                 ELSE locals
    /\ found' = IF datum = "best_human_match" /\ r.exc = ""
                    /\ r.val.t = "dict" /\ "description" \in DOMAIN r.val.v
                THEN Append(found, r.val.v["description"])
                ELSE found
    /\ UNCHANGED <<impl, api, file, dbState, db, inputs, idx, gets,
                   headers, out, given, wstate>>

\* populate without its gene_models lookup: the gene class is asked for
\* right after the description.
ContinueSkipping(o, next) ==
    IF o.exc # "" THEN End(o)
    ELSE /\ data' = o.data
         /\ err' = ""
         /\ pc' = IF next = "gene_models" THEN "gene_class" ELSE next
         /\ UNCHANGED <<records, pending>>

\* populate goes on to its next fetch, unless o is an exception.
Continue(o, next) ==
    IF o.exc # "" THEN End(o)
    ELSE /\ data' = o.data
         /\ err' = ""
         /\ pc' = next
         /\ UNCHANGED <<records, pending>>

FetchSequenceName ==
    /\ pc = "sequence_name"
    /\ \E resp \in Responses(api, "sequence_name", cur.geneID) :
        LET r == fetch(cur.geneID, "sequence_name", resp)
        IN  /\ Request(GENE_BASE, cur.geneID, "sequence_name", r)
            /\ Continue(IF r.exc # "" THEN Fail(r.exc, data)
                        ELSE AfterSequenceName(data, r.val),
                        "concise_description")

FetchConciseDescription ==
    /\ pc = "concise_description"
    /\ \E resp \in Responses(api, "concise_description", cur.geneID) :
        LET r == fetch(cur.geneID, "concise_description", resp)
        IN  /\ Request(GENE_BASE, cur.geneID, "concise_description", r)
            /\ Continue(IF r.exc # "" THEN Fail(r.exc, data)
                        ELSE AfterConciseDescription(data, r.val),
                        "gene_models")

FetchGeneModels ==
    /\ pc = "gene_models"
    /\ \E resp \in Responses(api, "gene_models", cur.geneID) :
        LET r == fetch(cur.geneID, "gene_models", resp)
        IN  /\ Request(GENE_BASE, cur.geneID, "gene_models", r)
            /\ Continue(IF r.exc # "" THEN Fail(r.exc, data)
                        ELSE AfterGeneModels(impl, data, r.val),
                        "gene_class")

FetchGeneClass ==
    /\ pc = "gene_class"
    /\ \E resp \in Responses(api, "gene_class", cur.geneID) :
        LET r == fetch(cur.geneID, "gene_class", resp)
        IN  /\ Request(GENE_BASE, cur.geneID, "gene_class", r)
            /\ Continue(IF r.exc # "" THEN Fail(r.exc, data)
                        ELSE AfterGeneClass(impl, data, r.val),
                        "human_orthologs")

FetchHumanOrthologs ==
    /\ pc = "human_orthologs"
    /\ \E resp \in Responses(api, "human_orthologs", cur.geneID) :
        LET r == fetch(cur.geneID, "human_orthologs", resp)
        IN  /\ Request(GENE_BASE, cur.geneID, "human_orthologs", r)
            /\ Continue(IF r.exc # "" THEN Fail(r.exc, data)
                        ELSE AfterOrthologs(data, "human_orthologs", r.val),
                        "nematode_orthologs")

FetchNematodeOrthologs ==
    /\ pc = "nematode_orthologs"
    /\ \E resp \in Responses(api, "nematode_orthologs", cur.geneID) :
        LET r == fetch(cur.geneID, "nematode_orthologs", resp)
        IN  /\ Request(GENE_BASE, cur.geneID, "nematode_orthologs", r)
            /\ Continue(IF r.exc # "" THEN Fail(r.exc, data)
                        ELSE AfterOrthologs(data, "nematode_orthologs", r.val),
                        "other_orthologs")

\* After the last gene lookup populate turns to the proteins: it ends at
\* once when there is none to look up.
StartProteins(o) ==
    LET d == Put(o.data, "best_human_ortholog", L(<<>>))
        ids == ProteinLookups(impl, d["protein_id"])
    IN  IF o.exc # "" THEN End(o)
        ELSE IF ids.exc # "" THEN End(Fail(ids.exc, d))
        ELSE IF Len(ids.val) = 0 THEN End(Finish(impl, d))
        ELSE /\ data' = d
             /\ err' = ""
             /\ pc' = "best_human_match"
             /\ pending' = ids.val
             /\ UNCHANGED records

FetchOtherOrthologs ==
    /\ pc = "other_orthologs"
    /\ \E resp \in Responses(api, "other_orthologs", cur.geneID) :
        LET r == fetch(cur.geneID, "other_orthologs", resp)
        IN  /\ Request(GENE_BASE, cur.geneID, "other_orthologs", r)
            /\ StartProteins(IF r.exc # "" THEN Fail(r.exc, data)
                             ELSE AfterOrthologs(data, "other_orthologs", r.val))

FetchBestHumanMatch ==
    /\ pc = "best_human_match"
    /\ \E resp \in Responses(api, "best_human_match", Head(pending)) :
        LET id == Head(pending)
            r == fetch(id, "best_human_match", resp)
            o == IF r.exc # "" THEN Fail(r.exc, data)
                 ELSE AfterBestHumanMatch(data, r.val)
        IN  /\ Request(PROTEIN_BASE, id, "best_human_match", r)
            /\ IF o.exc # "" THEN End(o)
               ELSE IF Len(pending) = 1 THEN End(Finish(impl, o.data))
               ELSE /\ data' = o.data
                    /\ err' = ""
                    /\ pending' = Tail(pending)
                    /\ UNCHANGED <<pc, records>>

\* OutputCSV(path, h).write(records), once every record is constructed
Write ==
    /\ pc = "done"
    /\ idx = Len(inputs)
    /\ wstate = "none"
    /\ \E h \in HeaderLists :
        LET w == write(impl, h, records)
        IN  /\ given' = h
            /\ headers' = w.headers
            /\ out' = w.rows
            /\ wstate' = IF w.exc = "" THEN "written" ELSE w.exc
    /\ UNCHANGED <<impl, api, file, dbState, db, inputs, idx, pc, data,
                   pending, calls, gets, locals, found, ret, err, records>>

Next ==
    \/ Load
    \/ New
    \/ FetchSequenceName
    \/ FetchConciseDescription
    \/ FetchGeneModels
    \/ FetchGeneClass
    \/ FetchHumanOrthologs
    \/ FetchNematodeOrthologs
    \/ FetchOtherOrthologs
    \/ FetchBestHumanMatch

Spec == Init /\ [][Next]_vars

NextRuns == Next \/ Write

SpecRuns == InitRuns /\ [][NextRuns]_vars

-----------------------------------------------------------------------------
(***************************************************************************)
(* The claims. Spec is one prefixed gene against every answer of the API;  *)
(* SpecRuns is whole runs, the writer included, against a stub API.        *)
(***************************************************************************)
\* The external identifier has the prefix WormBase genes have.
Prefixed(g) == g.t = "str" /\ StartsWith(g.v, "WBGene")

\* The identifiers of the requests record i made against base, in order.
RECURSIVE CallIds(_, _, _)
CallIds(q, i, base) ==
    IF Len(q) = 0 THEN <<>>
    ELSE (IF Head(q)[1] = i /\ Head(q)[2] = base THEN <<Head(q)[3]>> ELSE <<>>)
         \o CallIds(Tail(q), i, base)

\* The strings of q with ", " between them, built from the left.
RECURSIVE Joined(_)
Joined(q) ==
    IF Len(q) = 0 THEN ""
    ELSE IF Len(q) = 1 THEN q[1]
    ELSE Joined(SubSeq(q, 1, Len(q) - 1)) \o ", " \o q[Len(q)]

\* What a field holds for the strings q: absent for none, else the join.
Flat(q) == IF Len(q) = 0 THEN None ELSE S(Joined(q))

\* The field k of record d is absent: not set, or None.
Absent(d, k) == k \notin DOMAIN d \/ d[k] = None

\* The labels of the entries of an ortholog response, in response order.
LabelsOf(v) ==
    IF v.t = "list"
    THEN [i \in 1..Len(v.v) |-> v.v[i].v["ortholog"].v["label"].v]
    ELSE <<>>

\* The protein ids of the rows of a gene_models response that have one, in
\* response order.
RECURSIVE IdsOfRows(_)
IdsOfRows(rows) ==
    IF Len(rows) = 0 THEN <<>>
    ELSE (IF Head(rows).t = "dict" /\ "protein" \in DOMAIN Head(rows).v
          THEN <<Head(rows).v["protein"].v["id"].v>> ELSE <<>>)
         \o IdsOfRows(Tail(rows))

IdsOf(v) ==
    IF v.t = "dict" /\ "table" \in DOMAIN v.v THEN IdsOfRows(v.v["table"].v)
    ELSE <<>>

\* C1: fetch never raises into populate: whatever the outcome of the
\* request, it returns the nested 'data' value or None.
C1_FetchNeverRaises == ret.exc = ""

\* C2: for an external identifier without the prefix WBGene (None and ""
\* included) constructing the record makes no request and no store lookup,
\* and the record holds gene_id alone.
C2_UnprefixedNoLookups ==
    (idx >= 1 /\ ~Prefixed(cur.geneID)) =>
        /\ \A i \in 1..Len(calls) : calls[i][1] # idx
        /\ \A i \in 1..Len(gets) : gets[i][1] # idx
        /\ pc = "done"
        /\ data = ("gene_id" :> cur.geneID)

\* C2 as python2/WormCSV.py alone keeps it.
C2_Python2 == impl = "python2" => C2_UnprefixedNoLookups

\* The lookups of populate with the field each one fills.
FieldOf(datum) ==
    CASE datum = "sequence_name" -> "sequence_name"
      [] datum = "concise_description" -> "description"
      [] datum = "gene_models" -> "protein_id"
      [] datum = "gene_class" -> "gene_class"
      [] datum = "human_orthologs" -> "human_orthologs"
      [] datum = "nematode_orthologs" -> "nematode_orthologs"
      [] datum = "other_orthologs" -> "other_orthologs"
      [] datum = "best_human_match" -> "best_human_ortholog"

GeneLookups ==
    {"sequence_name", "concise_description", "gene_models", "gene_class",
     "human_orthologs", "nematode_orthologs", "other_orthologs"}

\* C3: a lookup that returns None never aborts populate, in python2 already:
\* populate does not raise on it, and once the record is complete the field
\* of every gene lookup that returned None is absent.
C3_AbsentLookupNeverAborts ==
    impl = "python2" =>
        /\ (Len(calls) > 0 /\ ret.exc = "" /\ ret.absent) => pc # "raised"
        /\ (pc = "done" /\ Prefixed(cur.geneID)) =>
               \A datum \in GeneLookups :
                   locals[LocalOf(datum)] = None => Absent(data, FieldOf(datum))

\* C4: every field of a complete record is a str or None, never a list or
\* a dict, whatever the API returned (in python2 already).
C4_FieldsScalar ==
    (impl = "python2" /\ pc = "done") =>
        \A k \in DOMAIN data : data[k].t \in {"str", "none"}

\* A record of the run was constructed with a local identifier of the XLOC
\* form.
SomeXLOC ==
    \E i \in 1..Len(inputs) :
        inputs[i].dbId.t = "str" /\ StartsWith(inputs[i].dbId.v, "XLOC")

InHeaders(k) == \E i \in 1..Len(headers) : headers[i] = k

\* C5: write (python2) drops db_id and up/down from the headers exactly
\* when no record has an XLOC local identifier, and keeps both when one has.
C5_HeaderRule ==
    (impl = "python2" /\ wstate # "none" /\ given = AllHeaders) =>
        IF SomeXLOC THEN InHeaders("db_id") /\ InHeaders("up/down")
        ELSE ~InHeaders("db_id") /\ ~InHeaders("up/down")

\* The row of record d under headers h: the field's value, the empty cell
\* for a field the record lacks.
RowOf(h, d) ==
    [i \in 1..Len(h) |->
        IF h[i] \in DOMAIN d /\ d[h[i]].t = "str" THEN d[h[i]].v ELSE ""]

\* C6: write (python2, the full header list) never fails on the records
\* the enricher produced; the file holds the header row, then one row per
\* record in the order of the list, cells in header order.
C6_OneRowPerRecord ==
    (impl = "python2" /\ wstate # "none" /\ given = AllHeaders) =>
        /\ wstate = "written"
        /\ out = <<headers>> \o [i \in 1..Len(records) |-> RowOf(headers, records[i])]

\* C7: populate makes one best_human_match request per protein id that
\* gene_models yielded, in order and with the whole id, and
\* best_human_ortholog is the join of the descriptions found, or None.
C7_OneLookupPerProtein ==
    (pc = "done" /\ Prefixed(cur.geneID)) =>
        /\ CallIds(calls, idx, PROTEIN_BASE) = IdsOf(locals["geneModels"])
        /\ \A i \in 1..Len(found) : found[i].t = "str"
        /\ data["best_human_ortholog"]
               = Flat([i \in 1..Len(found) |-> found[i].v])

\* C7 as python2/WormCSV.py alone keeps it.
C7_Python2 == impl = "python2" => C7_OneLookupPerProtein

\* The requests record i made.
CallsOf(i) == {k \in 1..Len(calls) : calls[k][1] = i}

\* C8 (python2): a prefixed gene whose local identifier is given but is no
\* key of the store makes the construction raise, before any request and
\* with no record produced; with no local identifier given the store is
\* not consulted and the record has no 'up/down'.
C8_MissingLocalRowFails ==
    (impl = "python2" /\ idx >= 1 /\ Prefixed(cur.geneID)) =>
        /\ (Truthy(cur.dbId) /\ cur.dbId.v \notin DOMAIN db) =>
               /\ pc = "raised"
               /\ err # ""
               /\ Len(records) = idx - 1
               /\ CallsOf(idx) = {}
        /\ ~Truthy(cur.dbId) =>
               /\ \A i \in 1..Len(gets) : gets[i][1] # idx
               /\ "up/down" \notin DOMAIN data

\* A second record whose local identifier the store lacks: the
\* construction raised and the run still holds the first record alone.
C8_Witness ==
    /\ impl = "python2"
    /\ idx = 2
    /\ Prefixed(cur.geneID)
    /\ cur.dbId = S("XLOC_9")
    /\ gets[Len(gets)] = <<2, S("XLOC_9")>>
    /\ pc = "raised"
    /\ err = "TypeError"
    /\ Len(records) = 1

\* The store a well-formed file loads: the first cell of every data row
\* maps each header to the row's cell.
StoreOf(f) ==
    [k \in {f[i][1] : i \in 2..Len(f)} |->
        LET i == CHOOSE i \in 2..Len(f) :
                     f[i][1] = k /\ \A j \in 2..Len(f) : f[j][1] = k => j <= i
        IN  D([h \in {f[1][c] : c \in 1..Len(f[1])} |->
                  S(f[i][CHOOSE c \in 1..Len(f[1]) : f[1][c] = h])])]

\* C9: loading fails when the file has no header row or a data row with
\* fewer cells than the header; otherwise the store maps the first cell of
\* each row to the row's header-to-cell mapping; get is None for a key that
\* was not loaded.
C9_LoadRejectsMalformed ==
    dbState # "unloaded" =>
        /\ IF Len(file) = 0 \/ \E i \in 2..Len(file) : Len(file[i]) < Len(file[1])
           THEN dbState # "loaded"
           ELSE dbState = "loaded" /\ db = StoreOf(file)
        /\ \A k \in DbIds :
               (k.t = "str" /\ k.v \notin DOMAIN db) => DatabaseGet(db, k) = None

\* C10 (python2): in a complete record each of human_orthologs,
\* nematode_orthologs, other_orthologs and protein_id is the labels (the
\* protein ids) of the response's entries joined by ', ' in response
\* order, none dropped, repeated or moved; None when the response is empty
\* or None.
C10_JoinedInResponseOrder ==
    (impl = "python2" /\ pc = "done" /\ Prefixed(cur.geneID)) =>
        /\ data["human_orthologs"] = Flat(LabelsOf(locals["humanOrthologs"]))
        /\ data["nematode_orthologs"] = Flat(LabelsOf(locals["nematodeOrthologs"]))
        /\ data["other_orthologs"] = Flat(LabelsOf(locals["otherOrthologs"]))
        /\ data["protein_id"] = Flat(IdsOf(locals["geneModels"]))

\* A complete record built from two human orthologs, an empty nematode
\* response, no other_orthologs response, and a table of the proteins P2
\* and P1.
C10_Witness ==
    /\ impl = "python2"
    /\ pc = "done"
    /\ locals["humanOrthologs"] = L(<<Orth("H1"), Orth("H2")>>)
    /\ data["human_orthologs"] = S("H1, H2")
    /\ locals["nematodeOrthologs"] = L(<<>>)
    /\ data["nematode_orthologs"] = None
    /\ locals["otherOrthologs"] = None
    /\ data["other_orthologs"] = None
    /\ locals["geneModels"] = D([table |-> L(<<Model("P2"), Model("P1")>>)])
    /\ data["protein_id"] = S("P2, P1")

\* The gene lookups of populate, in the order of the code.
LookupOrder ==
    <<"sequence_name", "concise_description", "gene_models", "gene_class",
      "human_orthologs", "nematode_orthologs", "other_orthologs">>

\* The requests record i made, in the order they were made.
CallSeq(i) == SelectSeq(calls, LAMBDA c : c[1] = i)

\* C11 (python2): the requests of a run are made one after another, record
\* by record: no request of a record follows a request of a later record.
\* The requests of a prefixed gene are, in this order, one each for
\* sequence_name, concise_description, gene_models, gene_class,
\* human_orthologs, nematode_orthologs and other_orthologs against the
\* gene base with the gene's identifier, then only best_human_match
\* requests against the protein base (so none before gene_models); a
\* record that is complete, or that a later record follows, has made all
\* seven gene requests.
C11_LookupsInFixedOrder ==
    impl = "python2" =>
        /\ \A k \in 1..(Len(calls) - 1) : calls[k][1] <= calls[k + 1][1]
        /\ \A r \in 1..idx : Prefixed(inputs[r].geneID) =>
               LET cs == CallSeq(r)
               IN  /\ \A i \in 1..Len(cs) :
                          IF i <= Len(LookupOrder)
                          THEN cs[i] = <<r, GENE_BASE, inputs[r].geneID.v,
                                         LookupOrder[i]>>
                          ELSE /\ cs[i][2] = PROTEIN_BASE
                               /\ cs[i][4] = "best_human_match"
                   /\ (r < idx \/ pc = "done") =>
                          Len(cs) >= Len(LookupOrder)

\* Two prefixed genes enriched one after the other, each with its seven
\* gene requests and one protein request: the eighth request of the run is
\* the first record's protein lookup, the ninth the second record's
\* sequence_name.
C11_Witness ==
    /\ impl = "python2"
    /\ idx = 2
    /\ pc = "done"
    /\ Prefixed(inputs[1].geneID)
    /\ Prefixed(inputs[2].geneID)
    /\ Len(calls) = 16
    /\ calls[8] = <<1, PROTEIN_BASE, "P1", "best_human_match">>
    /\ calls[9] = <<2, GENE_BASE, inputs[2].geneID.v, "sequence_name">>
    /\ calls[16] = <<2, PROTEIN_BASE, "P1", "best_human_match">>

=============================================================================
